---- MODULE Spec2Model ----
(***************************************************************************)
(* A model of the decoder combinators of src/lib/index.ts.                 *)
(*                                                                         *)
(* A JavaScript value is a tagged tuple:                                   *)
(*   <<"undefined">>  <<"null">>  <<"boolean", b>>  <<"number", n>>        *)
(*   <<"string", s>>  <<"function">>                                       *)
(*   <<"array", <<v1, ..., vn>> >>                                         *)
(*   <<"object", << <<k1, v1>>, ..., <<kn, vn>> >> >>  (own properties in  *)
(*   insertion order, keys distinct).                                      *)
(* A decoder is a tagged tuple built by the constructors Boolean, Number,  *)
(* String, Array, Object, Map, Dictionary, Maybe, Default, At, OneOf2 and  *)
(* OneOf3.  decode is the operator Decode; its outcome is                  *)
(*   <<"return", value, calls>>  or  <<"throw", message, calls>>           *)
(* where message is the message of the DecodeError thrown and calls is the *)
(* sequence of decoders whose decode was entered, in order.                *)
(***************************************************************************)
EXTENDS Integers, Sequences, FiniteSets, TLC

VARIABLES decoder, json, outcome

vars == <<decoder, json, outcome>>

(***************************************************************************)
(* Bounds and input sets                                                   *)
(***************************************************************************)

\* The largest number of nodes (primitives, arrays, objects) of an input.
MaxNodes == 3

\* Own keys that inputs and decoder maps use.
Keys == {"a", "b"}

\* A property every object inherits from Object.prototype.
InheritedKeys == {"toString"}

Undefined == <<"undefined">>
Null == <<"null">>
Fun == <<"function">>
Num(n) == <<"number", n>>
Str(s) == <<"string", s>>
Bool(b) == <<"boolean", b>>
Arr(s) == <<"array", s>>
Obj(s) == <<"object", s>>

\* The primitives that occur inside the inputs.
Prims == {Null, Num(1), Str("x")}

RECURSIVE ValuesOfSize(_), ArrayBodies(_), ObjectBodies(_, _)
ValuesOfSize(n) ==
    IF n = 1 THEN Prims \cup {Arr(<<>>), Obj(<<>>)}
    ELSE {Arr(b) : b \in ArrayBodies(n - 1)}
         \cup {Obj(b) : b \in ObjectBodies(n - 1, Keys)}

ArrayBodies(n) ==
    IF n = 0 THEN {<<>>}
    ELSE UNION {{<<v>> \o rest : v \in ValuesOfSize(k), rest \in ArrayBodies(n - k)}
                  : k \in 1..n}

ObjectBodies(n, ks) ==
    IF n = 0 THEN {<<>>}
    ELSE UNION {UNION {{<< <<key, v>> >> \o rest :
                           v \in ValuesOfSize(k), rest \in ObjectBodies(n - k, ks \ {key})}
                         : key \in ks}
                  : k \in 1..n}

\* The parsed JSON documents of at most MaxNodes nodes.
JSONValues == UNION {ValuesOfSize(n) : n \in 1..MaxNodes}

\* What a caller may pass to decode.
Inputs == JSONValues \cup {Undefined, Bool(TRUE), Bool(FALSE)}

(***************************************************************************)
(* The host language: typeof, property access, JSON.stringify              *)
(***************************************************************************)

Tag(v) == v[1]

\* typeof v: null, arrays and objects all answer "object".
typeof(v) ==
    IF Tag(v) \in {"null", "array", "object"} THEN "object" ELSE Tag(v)

\* isArray of ./unshadow (the global Array.isArray under another name, the
\* module itself shadowing Array): v is a Sequence.
isArray(v) == Tag(v) = "array"

\* The names of a sequence of <<key, value>> properties, in order.
KeysOf(props) == [i \in 1..Len(props) |-> props[i][1]]

\* objectKeys of ./unshadow (the global Object.keys): the own keys, in
\* insertion order.
objectKeys(v) == KeysOf(v[2])

\* The own property key of object v (v has it).
OwnValue(v, key) ==
    LET i == CHOOSE j \in 1..Len(v[2]) : v[2][j][1] = key IN v[2][i][2]

HasOwn(v, key) == \E j \in 1..Len(v[2]) : v[2][j][1] = key

\* key in v, for an object v: an own or an inherited property.
In(key, v) == HasOwn(v, key) \/ key \in InheritedKeys

\* v[key], for an object v: the own property, else the inherited one
\* (a method of Object.prototype), else undefined.
Get(v, key) ==
    IF HasOwn(v, key) THEN OwnValue(v, key)
    ELSE IF key \in InheritedKeys THEN Fun
    ELSE Undefined

\* result[key] = value on the object built by a reduce: keys arrive distinct.
Put(props, key, value) == Append(props, <<key, value>>)

\* s1 + sep + s2 + ... (Array.prototype.join on strings).
RECURSIVE join(_, _)
join(strs, sep) ==
    IF Len(strs) = 0 THEN ""
    ELSE IF Len(strs) = 1 THEN strs[1]
    ELSE strs[1] \o sep \o join(Tail(strs), sep)

\* JSON.stringify(v) where it yields a string; an undefined or a function
\* is rendered null inside an array and left out of an object.
RECURSIVE stringify(_), stringifyProps(_)
stringify(v) ==
    CASE Tag(v) = "null" -> "null"
      [] Tag(v) = "boolean" -> IF v[2] THEN "true" ELSE "false"
      [] Tag(v) = "number" -> ToString(v[2])
      [] Tag(v) = "string" -> "\"" \o v[2] \o "\""
      [] Tag(v) = "array" ->
           "[" \o join([i \in 1..Len(v[2]) |->
                          IF Tag(v[2][i]) \in {"undefined", "function"} THEN "null"
                          ELSE stringify(v[2][i])], ",") \o "]"
      [] Tag(v) = "object" -> "{" \o join(stringifyProps(v[2]), ",") \o "}"

stringifyProps(props) ==
    IF Len(props) = 0 THEN <<>>
    ELSE IF Tag(props[1][2]) \in {"undefined", "function"}
         THEN stringifyProps(Tail(props))
    ELSE <<"\"" \o props[1][1] \o "\":" \o stringify(props[1][2])>>
         \o stringifyProps(Tail(props))

\* `${JSON.stringify(actual)}`: JSON.stringify answers undefined for an
\* undefined and for a function, which the template renders "undefined".
Rendered(actual) ==
    IF Tag(actual) \in {"undefined", "function"} THEN "undefined"
    ELSE stringify(actual)

\* new DecodeError(expected, actual): the error carries its message only.
DecodeError(expected, actual) ==
    "Decode error: expected " \o expected \o ", got " \o Rendered(actual)

(***************************************************************************)
(* Outcomes of a call                                                      *)
(***************************************************************************)

Return(value, calls) == <<"return", value, calls>>
Throw(message, calls) == <<"throw", message, calls>>
Pending == <<"pending">>

Returned(r) == r[1] = "return"
Threw(r) == r[1] = "throw"
ValueOf(r) == r[2]
MessageOf(r) == r[2]
CallsOf(r) == r[3]

(***************************************************************************)
(* Decoders                                                                *)
(***************************************************************************)

Boolean == <<"Boolean">>
Number == <<"Number">>
String == <<"String">>
Array(elementDecoder) == <<"Array", elementDecoder>>
\* decoderMap: a sequence of <<key, decoder>>, the map's own keys in order.
Object(decoderMap) == <<"Object", decoderMap>>
Map(mapper, d) == <<"Map", mapper, d>>
Dictionary(d) == <<"Dictionary", d>>
Maybe(d) == <<"Maybe", d>>
Default(d, defaultValue) == <<"Default", d, defaultValue>>
At(path, d) == <<"At", path, d>>
OneOf2(d1, d2) == <<"OneOf2", d1, d2>>
OneOf3(d1, d2, d3) == <<"OneOf3", d1, d2, d3>>

\* The mapper functions callers pass to Map, by name.
Mappers == {"id", "wrap", "typeof"}

\* mapper(raw)
Apply(mapper, raw) ==
    CASE mapper = "id" -> raw
      [] mapper = "wrap" -> Arr(<<raw>>)
      [] mapper = "typeof" -> Str(typeof(raw))

RECURSIVE Decode(_, _)

isObject(param) ==
    param # Null /\ typeof(param) = "object" /\ ~isArray(param)

Boolean_decode(j) ==
    IF typeof(j) = "boolean" THEN Return(j, <<>>)
    ELSE Throw(DecodeError("boolean", j), <<>>)

\* Variant: a null passes for a number.
Number_decode_nullable(j) ==
    IF typeof(j) = "number" \/ j = Null THEN Return(j, <<>>)
    ELSE Throw(DecodeError("number", j), <<>>)

Number_decode(j) ==
    IF typeof(j) = "number" THEN Return(j, <<>>)
    ELSE Throw(DecodeError("number", j), <<>>)

String_decode(j) ==
    IF typeof(j) = "string" THEN Return(j, <<>>)
    ELSE Throw(DecodeError("string", j), <<>>)

\* json.map(elementDecoder.decode, elementDecoder) from element i on, the
\* results so far being acc: a throw leaves the map at once.
RECURSIVE ArrayMap(_, _, _, _, _)
ArrayMap(elementDecoder, elems, i, acc, calls) ==
    IF i > Len(elems) THEN Return(Arr(acc), calls)
    ELSE LET r == Decode(elementDecoder, elems[i]) IN
         IF Threw(r) THEN Throw(MessageOf(r), calls \o CallsOf(r))
         ELSE ArrayMap(elementDecoder, elems, i + 1,
                       Append(acc, ValueOf(r)), calls \o CallsOf(r))

\* Variant: the elements are decoded from the last to the first.
Array_decode_backwards(elementDecoder, j) ==
    IF isArray(j)
    THEN LET n == Len(j[2])
             r == ArrayMap(elementDecoder, [i \in 1..n |-> j[2][n + 1 - i]], 1, <<>>, <<>>)
         IN  IF Threw(r) THEN r
             ELSE Return(Arr([i \in 1..n |-> ValueOf(r)[2][n + 1 - i]]), CallsOf(r))
    ELSE Throw(DecodeError("array", j), <<>>)

Array_decode(elementDecoder, j) ==
    IF isArray(j) THEN ArrayMap(elementDecoder, j[2], 1, <<>>, <<>>)
    ELSE Throw(DecodeError("array", j), <<>>)

\* objectKeys(decoderMap).reduce(...) from the i-th key on.
RECURSIVE ObjectReduce(_, _, _, _, _)
ObjectReduce(decoderMap, j, i, result, calls) ==
    IF i > Len(decoderMap) THEN Return(Obj(result), calls)
    ELSE LET key == decoderMap[i][1]
             r == Decode(decoderMap[i][2], Get(j, key))
         IN  IF Threw(r) THEN Throw(MessageOf(r), calls \o CallsOf(r))
             ELSE ObjectReduce(decoderMap, j, i + 1,
                               Put(result, key, ValueOf(r)), calls \o CallsOf(r))

\* Variant: the fields are decoded in the key order of the input, the
\* fields the input lacks after them.
Object_decode_inputOrder(decoderMap, j) ==
    IF isObject(j)
    THEN LET declared(k) == \E i \in 1..Len(decoderMap) : decoderMap[i][1] = k
             entry(k) == decoderMap[CHOOSE i \in 1..Len(decoderMap) : decoderMap[i][1] = k]
             present == SelectSeq(objectKeys(j), declared)
             absent == SelectSeq(KeysOf(decoderMap), LAMBDA k : ~HasOwn(j, k))
             order == present \o absent
         IN  ObjectReduce([i \in 1..Len(order) |-> entry(order[i])], j, 1, <<>>, <<>>)
    ELSE Throw(DecodeError("object", j), <<>>)

Object_decode(decoderMap, j) ==
    IF isObject(j) THEN ObjectReduce(decoderMap, j, 1, <<>>, <<>>)
    ELSE Throw(DecodeError("object", j), <<>>)

\* Variant: the mapper is left out.
Map_decode_unmapped(mapper, d, j) == Decode(d, j)

Map_decode(mapper, d, j) ==
    LET r == Decode(d, j) IN
    IF Threw(r) THEN r ELSE Return(Apply(mapper, ValueOf(r)), CallsOf(r))

\* objectKeys(json).reduce(...) from the i-th key on.
RECURSIVE DictionaryReduce(_, _, _, _, _)
DictionaryReduce(d, j, i, dict, calls) ==
    IF i > Len(objectKeys(j)) THEN Return(Obj(dict), calls)
    ELSE LET key == objectKeys(j)[i]
             r == Decode(d, Get(j, key))
         IN  IF Threw(r) THEN Throw(MessageOf(r), calls \o CallsOf(r))
             ELSE DictionaryReduce(d, j, i + 1,
                                   Put(dict, key, ValueOf(r)), calls \o CallsOf(r))

\* Variant: a null passes for an empty dictionary.
Dictionary_decode_nullable(d, j) ==
    IF isObject(j) THEN DictionaryReduce(d, j, 1, <<>>, <<>>)
    ELSE IF j = Null THEN Return(Obj(<<>>), <<>>)
    ELSE Throw(DecodeError("object", j), <<>>)

Dictionary_decode(d, j) ==
    IF isObject(j) THEN DictionaryReduce(d, j, 1, <<>>, <<>>)
    ELSE Throw(DecodeError("object", j), <<>>)

\* Variant: only a null counts as missing.
Maybe_decode_nullOnly(d, j) ==
    IF j = Null THEN Return(Null, <<>>)
    ELSE Decode(d, j)

Maybe_decode(d, j) ==
    IF j = Null \/ j = Undefined THEN Return(Null, <<>>)
    ELSE Decode(d, j)

Default_decode(d, defaultValue, j) ==
    IF j \in {Null, Undefined} THEN Return(defaultValue, <<>>)
    ELSE Decode(d, j)

\* path.reduce(...) from the i-th key on, current being the node reached:
\* <<TRUE, node>> when the path resolves, <<FALSE, message>> on the throw.
RECURSIVE Traverse(_, _, _, _)
Traverse(path, j, i, current) ==
    IF i > Len(path) THEN <<TRUE, current>>
    ELSE IF isObject(current) /\ In(path[i], current)
         THEN Traverse(path, j, i + 1, Get(current, path[i]))
    ELSE <<FALSE, DecodeError("value at " \o join(path, "."), j)>>

\* Variant: the error carries the node the walk stopped at.
RECURSIVE TraverseNode(_, _, _)
TraverseNode(path, i, current) ==
    IF i > Len(path) THEN <<TRUE, current>>
    ELSE IF isObject(current) /\ In(path[i], current)
         THEN TraverseNode(path, i + 1, Get(current, path[i]))
    ELSE <<FALSE, DecodeError("value at " \o join(path, "."), current)>>

At_decode_partialNode(path, d, j) ==
    LET traverseResult == TraverseNode(path, 1, j) IN
    IF traverseResult[1] THEN Decode(d, traverseResult[2])
    ELSE Throw(traverseResult[2], <<>>)

At_decode(path, d, j) ==
    LET traverseResult == Traverse(path, j, 1, j) IN
    IF traverseResult[1] THEN Decode(d, traverseResult[2])
    ELSE Throw(traverseResult[2], <<>>)

\* Variant: on a double failure the first error is the one thrown.
OneOf2_decode_firstError(d1, d2, j) ==
    LET r1 == Decode(d1, j) IN
    IF Returned(r1) THEN r1
    ELSE LET r2 == Decode(d2, j) IN
         IF Returned(r2) THEN <<r2[1], r2[2], CallsOf(r1) \o CallsOf(r2)>>
         ELSE Throw(MessageOf(r1), CallsOf(r1) \o CallsOf(r2))

OneOf2_decode(d1, d2, j) ==
    LET r1 == Decode(d1, j) IN
    IF Returned(r1) THEN r1
    ELSE LET r2 == Decode(d2, j) IN <<r2[1], r2[2], CallsOf(r1) \o CallsOf(r2)>>

OneOf3_decode(d1, d2, d3, j) ==
    LET r1 == Decode(d1, j) IN
    IF Returned(r1) THEN r1
    ELSE LET r2 == Decode(OneOf2(d2, d3), j)
         IN  <<r2[1], r2[2], CallsOf(r1) \o CallsOf(r2)>>

\* d.decode(j); the call itself is the first entry of calls.
Decode(d, j) ==
    LET r == CASE Tag(d) = "Boolean" -> Boolean_decode(j)
               [] Tag(d) = "Number" -> Number_decode(j)
               [] Tag(d) = "String" -> String_decode(j)
               [] Tag(d) = "Array" -> Array_decode(d[2], j)
               [] Tag(d) = "Object" -> Object_decode(d[2], j)
               [] Tag(d) = "Map" -> Map_decode(d[2], d[3], j)
               [] Tag(d) = "Dictionary" -> Dictionary_decode(d[2], j)
               [] Tag(d) = "Maybe" -> Maybe_decode(d[2], j)
               [] Tag(d) = "Default" -> Default_decode(d[2], d[3], j)
               [] Tag(d) = "At" -> At_decode(d[2], d[3], j)
               [] Tag(d) = "OneOf2" -> OneOf2_decode(d[2], d[3], j)
               [] Tag(d) = "OneOf3" -> OneOf3_decode(d[2], d[3], d[4], j)
    IN  <<r[1], r[2], <<d>> \o r[3]>>

(***************************************************************************)
(* The decoders a caller assembles                                         *)
(***************************************************************************)

\* Decoders passed to a combinator as its argument.
Inner ==
    {Number, String,
     Maybe(Number), Default(Number, Num(0)), Map("wrap", Number),
     At(<<"a", "b">>, Number), At(<<"toString">>, Number),
     OneOf2(Number, String),
     Array(Number), Object(<< <<"a", Number>> >>), Dictionary(Number)}

\* Decoders of the fields of an Object.
FieldDecoders == {Number, String, Maybe(Number), At(<<"a">>, Number)}

\* The alternatives of OneOf2 and OneOf3.
Alternatives == {Number, String, Array(Number), At(<<"a">>, Number)}

\* The decoders At leads to.
Targets == {Number, String, Maybe(Number), At(<<"a">>, Number)}

PathKeys == Keys \cup InheritedKeys

\* Paths of at most two keys.
Paths ==
    {<<>>} \cup {<<k>> : k \in PathKeys}
           \cup {<<k1, k2>> : k1 \in PathKeys, k2 \in PathKeys}

\* Decoder maps of at most two fields, in declaration order.
DecoderMaps ==
    LET one == {<< <<k, d>> >> : k \in PathKeys, d \in FieldDecoders}
        two == {<< <<k1, d1>>, <<k2, d2>> >> :
                   k1 \in PathKeys, k2 \in Keys,
                   d1 \in FieldDecoders, d2 \in {Number, String}}
    IN  {<<>>} \cup one \cup {m \in two : m[1][1] # m[2][1]}

DefaultValues == {Num(0), Null}

(***************************************************************************)
(* The state machine: a caller holds an input and calls decode on it once  *)
(***************************************************************************)

NoDecoder == <<"none">>

Init ==
    /\ json \in Inputs
    /\ decoder = NoDecoder
    /\ outcome = Pending

\* Each action is one call decoder.decode(json) on the input held.

DecodeBoolean ==
    /\ outcome = Pending
    /\ decoder' = Boolean
    /\ outcome' = Decode(Boolean, json)
    /\ UNCHANGED json

DecodeNumber ==
    /\ outcome = Pending
    /\ decoder' = Number
    /\ outcome' = Decode(Number, json)
    /\ UNCHANGED json

DecodeString ==
    /\ outcome = Pending
    /\ decoder' = String
    /\ outcome' = Decode(String, json)
    /\ UNCHANGED json

DecodeArray ==
    \E d \in Inner \cup {Boolean} :
        /\ outcome = Pending
        /\ decoder' = Array(d)
        /\ outcome' = Decode(Array(d), json)
        /\ UNCHANGED json

DecodeObject ==
    \E m \in DecoderMaps :
        /\ outcome = Pending
        /\ decoder' = Object(m)
        /\ outcome' = Decode(Object(m), json)
        /\ UNCHANGED json

DecodeMap ==
    \E f \in Mappers, d \in Inner :
        /\ outcome = Pending
        /\ decoder' = Map(f, d)
        /\ outcome' = Decode(Map(f, d), json)
        /\ UNCHANGED json

DecodeDictionary ==
    \E d \in Inner :
        /\ outcome = Pending
        /\ decoder' = Dictionary(d)
        /\ outcome' = Decode(Dictionary(d), json)
        /\ UNCHANGED json

DecodeMaybe ==
    \E d \in Inner :
        /\ outcome = Pending
        /\ decoder' = Maybe(d)
        /\ outcome' = Decode(Maybe(d), json)
        /\ UNCHANGED json

DecodeDefault ==
    \E d \in Inner, dv \in DefaultValues :
        /\ outcome = Pending
        /\ decoder' = Default(d, dv)
        /\ outcome' = Decode(Default(d, dv), json)
        /\ UNCHANGED json

DecodeAt ==
    \E p \in Paths, d \in Targets :
        /\ outcome = Pending
        /\ decoder' = At(p, d)
        /\ outcome' = Decode(At(p, d), json)
        /\ UNCHANGED json

DecodeOneOf2 ==
    \E d1 \in Alternatives, d2 \in Alternatives :
        /\ outcome = Pending
        /\ decoder' = OneOf2(d1, d2)
        /\ outcome' = Decode(OneOf2(d1, d2), json)
        /\ UNCHANGED json

DecodeOneOf3 ==
    \E d1 \in Alternatives, d2 \in Alternatives, d3 \in Alternatives :
        /\ outcome = Pending
        /\ decoder' = OneOf3(d1, d2, d3)
        /\ outcome' = Decode(OneOf3(d1, d2, d3), json)
        /\ UNCHANGED json

Next ==
    \/ DecodeBoolean
    \/ DecodeNumber
    \/ DecodeString
    \/ DecodeArray
    \/ DecodeObject
    \/ DecodeMap
    \/ DecodeDictionary
    \/ DecodeMaybe
    \/ DecodeDefault
    \/ DecodeAt
    \/ DecodeOneOf2
    \/ DecodeOneOf3

Spec == Init /\ [][Next]_vars

Called == outcome # Pending

(***************************************************************************)
(* Vocabulary of the properties                                            *)
(***************************************************************************)

\* Two outcomes agree: both return the same value or both throw the same
\* error.
SameOutcome(r1, r2) == r1[1] = r2[1] /\ r1[2] = r2[2]

\* The outcome throws the error of message msg.
Fails(r, msg) == Threw(r) /\ MessageOf(r) = msg

\* The outcome returns value.
Yields(r, value) == Returned(r) /\ ValueOf(r) = value

\* The input is a Sequence / a Mapping of the data model.
IsSequence(v) == Tag(v) = "array"
IsMapping(v) == Tag(v) = "object"

\* The least index of a throwing outcome in a sequence holding one.
FirstThrow(rs) ==
    CHOOSE i \in 1..Len(rs) : Threw(rs[i]) /\ \A h \in 1..(i - 1) : Returned(rs[h])

AllReturn(rs) == \A i \in 1..Len(rs) : Returned(rs[i])

\* The name a primitive decoder gives as expected.
PrimitiveName(d) ==
    CASE d = Boolean -> "boolean" [] d = Number -> "number" [] d = String -> "string"

(***************************************************************************)
(* C1: a primitive decoder returns its input unchanged exactly when the    *)
(* input is of its own variant, and otherwise throws the DecodeError whose *)
(* expected is "boolean", "number" or "string" and whose actual is the     *)
(* input.                                                                  *)
(***************************************************************************)
C1_Primitives ==
    (Called /\ decoder \in {Boolean, Number, String}) =>
        /\ Returned(outcome) <=> Tag(json) = PrimitiveName(decoder)
        /\ Returned(outcome) => ValueOf(outcome) = json
        /\ Threw(outcome) =>
              MessageOf(outcome) = DecodeError(PrimitiveName(decoder), json)

\* Number on a string.
C1_Witness ==
    /\ decoder = Number
    /\ json = Str("x")
    /\ outcome = Throw("Decode error: expected number, got \"x\"", <<Number>>)

\* d's outcome on each element of the array v.
ElementOutcomes(d, v) == [i \in 1..Len(v[2]) |-> Decode(d, v[2][i])]

(***************************************************************************)
(* C5: Array(d) succeeds exactly on a Sequence all of whose elements d     *)
(* decodes; the result has the input's length and holds d's results in     *)
(* order; otherwise the error is the leftmost failing element's, or        *)
(* DecodeError("array", input) when the input is no Sequence.              *)
(***************************************************************************)
C5_Array ==
    (Called /\ Tag(decoder) = "Array") =>
        LET rs == ElementOutcomes(decoder[2], json) IN
        /\ Returned(outcome) <=> (IsSequence(json) /\ AllReturn(rs))
        /\ Returned(outcome) =>
              /\ Tag(ValueOf(outcome)) = "array"
              /\ Len(ValueOf(outcome)[2]) = Len(json[2])
              /\ \A i \in 1..Len(json[2]) : ValueOf(outcome)[2][i] = ValueOf(rs[i])
        /\ (IsSequence(json) /\ ~AllReturn(rs)) =>
              Fails(outcome, MessageOf(rs[FirstThrow(rs)]))
        /\ ~IsSequence(json) => Fails(outcome, DecodeError("array", json))

\* Array(Number) on [1, "x"].
C5_Witness ==
    /\ decoder = Array(Number)
    /\ json = Arr(<<Num(1), Str("x")>>)
    /\ Fails(outcome, "Decode error: expected number, got \"x\"")

\* Each field decoder's outcome on the property of its key.
FieldOutcomes(m, v) == [i \in 1..Len(m) |-> Decode(m[i][2], Get(v, m[i][1]))]

\* The same object with its properties in the opposite order.
Reversed(v) ==
    Obj([i \in 1..Len(v[2]) |-> v[2][Len(v[2]) + 1 - i]])

EntryOutcomes(d, v) == [i \in 1..Len(v[2]) |-> Decode(d, v[2][i][2])]

(***************************************************************************)
(* C9: Dictionary(d) on a Mapping succeeds exactly when d decodes the      *)
(* value of every key present, returning a mapping of the same keys bound  *)
(* to d's results; a failing value makes the call throw that value's       *)
(* error, the first in key order; on an input that is no Mapping it throws *)
(* DecodeError("object", input).                                           *)
(***************************************************************************)
C9_Dictionary ==
    (Called /\ Tag(decoder) = "Dictionary") =>
        LET rs == EntryOutcomes(decoder[2], json) IN
        /\ ~IsMapping(json) => Fails(outcome, DecodeError("object", json))
        /\ IsMapping(json) => (Returned(outcome) <=> AllReturn(rs))
        /\ (IsMapping(json) /\ AllReturn(rs)) =>
              /\ Tag(ValueOf(outcome)) = "object"
              /\ objectKeys(ValueOf(outcome)) = objectKeys(json)
              /\ \A i \in 1..Len(json[2]) :
                    ValueOf(outcome)[2][i] = <<json[2][i][1], ValueOf(rs[i])>>
        /\ (IsMapping(json) /\ ~AllReturn(rs)) =>
              Fails(outcome, MessageOf(rs[FirstThrow(rs)]))

\* Dictionary(Number) on {a: 1, b: "x"}.
C9_Witness ==
    /\ decoder = Dictionary(Number)
    /\ json = Obj(<< <<"a", Num(1)>>, <<"b", Str("x")>> >>)
    /\ Fails(outcome, "Decode error: expected number, got \"x\"")

(***************************************************************************)
(* C10: Map(f, d) returns f of d's result when d succeeds and throws d's   *)
(* error unchanged when d fails; Map(id, d) has the outcome of d.          *)
(***************************************************************************)
C10_Map ==
    (Called /\ Tag(decoder) = "Map") =>
        LET f == decoder[2]
            r == Decode(decoder[3], json)
        IN  /\ Returned(r) => Yields(outcome, Apply(f, ValueOf(r)))
            /\ Threw(r) => Fails(outcome, MessageOf(r))
            /\ f = "id" => SameOutcome(outcome, r)

\* Map(x => [x], Number) on 1.
C10_Witness ==
    /\ decoder = Map("wrap", Number)
    /\ json = Num(1)
    /\ Yields(outcome, Arr(<<Num(1)>>))

\* The value is null or undefined.
Missing(v) == Tag(v) \in {"null", "undefined"}

(***************************************************************************)
(* C8: on a null or an undefined input Maybe(d) returns null (the          *)
(* no-value marker) and Default(d, dv) returns dv, d not being called; on  *)
(* every other input both have the outcome of d, value or error unchanged. *)
(***************************************************************************)
C8_MaybeDefault ==
    (Called /\ Tag(decoder) \in {"Maybe", "Default"}) =>
        LET r == Decode(decoder[2], json)
            fallback == IF Tag(decoder) = "Maybe" THEN Null ELSE decoder[3]
        IN  /\ Missing(json) =>
                  /\ Yields(outcome, fallback)
                  /\ CallsOf(outcome) = <<decoder>>
            /\ ~Missing(json) =>
                  /\ SameOutcome(outcome, r)
                  /\ CallsOf(outcome) = <<decoder>> \o CallsOf(r)

\* Maybe(Number) on an absent value: Number alone throws there.
C8_Witness ==
    /\ decoder = Maybe(Number)
    /\ json = Undefined
    /\ Threw(Decode(Number, json))
    /\ outcome = Return(Null, <<Maybe(Number)>>)

(***************************************************************************)
(* C4: OneOf2 and OneOf3 try their alternatives in the order given, return *)
(* the result of the first that succeeds without calling a later one, and  *)
(* throw the error of the last one when all fail; OneOf3(d1, d2, d3) has   *)
(* the outcome of OneOf2(d1, OneOf2(d2, d3)).                              *)
(***************************************************************************)
C4_OneOf ==
    /\ (Called /\ Tag(decoder) = "OneOf2") =>
          LET r1 == Decode(decoder[2], json)
              r2 == Decode(decoder[3], json)
          IN  /\ Returned(r1) =>
                    /\ SameOutcome(outcome, r1)
                    /\ CallsOf(outcome) = <<decoder>> \o CallsOf(r1)
              /\ Threw(r1) =>
                    /\ SameOutcome(outcome, r2)
                    /\ CallsOf(outcome) = <<decoder>> \o CallsOf(r1) \o CallsOf(r2)
    /\ (Called /\ Tag(decoder) = "OneOf3") =>
          LET r1 == Decode(decoder[2], json)
              r2 == Decode(decoder[3], json)
              r3 == Decode(decoder[4], json)
              inner == <<OneOf2(decoder[3], decoder[4])>>
          IN  /\ Returned(r1) =>
                    /\ SameOutcome(outcome, r1)
                    /\ CallsOf(outcome) = <<decoder>> \o CallsOf(r1)
              /\ (Threw(r1) /\ Returned(r2)) =>
                    /\ SameOutcome(outcome, r2)
                    /\ CallsOf(outcome) = <<decoder>> \o CallsOf(r1) \o inner \o CallsOf(r2)
              /\ (Threw(r1) /\ Threw(r2)) =>
                    /\ SameOutcome(outcome, r3)
                    /\ CallsOf(outcome) =
                          <<decoder>> \o CallsOf(r1) \o inner \o CallsOf(r2) \o CallsOf(r3)
              /\ SameOutcome(outcome,
                             Decode(OneOf2(decoder[2], OneOf2(decoder[3], decoder[4])), json))

\* OneOf3(Number, String, Array(Number)) on null: all three fail, the
\* error is the last one's.
C4_Witness ==
    /\ decoder = OneOf3(Number, String, Array(Number))
    /\ json = Null
    /\ Fails(outcome, "Decode error: expected array, got null")

\* The object v with the further key k bound to null.
WithNull(v, k) == Obj(Append(v[2], <<k, Null>>))

(***************************************************************************)
(* C2: when a key k declared in m is absent from the Mapping input,        *)
(* Object(m) has the outcome it has on the same input with k bound to      *)
(* null, value or error; Object({a: Number, b: String}) on {a: 1} throws   *)
(* DecodeError("string", null).                                            *)
(***************************************************************************)
C2_MissingKeyAsNull ==
    (Called /\ Tag(decoder) = "Object" /\ IsMapping(json)) =>
        /\ \A i \in 1..Len(decoder[2]) :
              ~HasOwn(json, decoder[2][i][1]) =>
                  SameOutcome(outcome, Decode(decoder, WithNull(json, decoder[2][i][1])))
        /\ (/\ decoder = Object(<< <<"a", Number>>, <<"b", String>> >>)
            /\ json = Obj(<< <<"a", Num(1)>> >>)) =>
              Fails(outcome, DecodeError("string", Null))

\* The path resolves in the data model: every key is a key of the Mapping
\* reached.
RECURSIVE Resolves(_, _)
Resolves(p, v) ==
    \/ p = <<>>
    \/ /\ IsMapping(v)
       /\ HasOwn(v, Head(p))
       /\ Resolves(Tail(p), OwnValue(v, Head(p)))

\* The node a resolving path leads to.
RECURSIVE Terminal(_, _)
Terminal(p, v) ==
    IF p = <<>> THEN v ELSE Terminal(Tail(p), OwnValue(v, Head(p)))

(***************************************************************************)
(* C3: At(p, d) walks p from the input; when some node on the way is no    *)
(* Mapping or lacks the next key, it throws DecodeError("value at " + p    *)
(* joined by ".", input), whichever step failed; when the whole path       *)
(* resolves (the empty path does, a key bound to null is present), the     *)
(* outcome is d's on the node reached.                                     *)
(***************************************************************************)
C3_At ==
    (Called /\ Tag(decoder) = "At") =>
        LET p == decoder[2]
            d == decoder[3]
        IN  IF Resolves(p, json)
            THEN SameOutcome(outcome, Decode(d, Terminal(p, json)))
            ELSE Fails(outcome, DecodeError("value at " \o join(p, "."), json))

(***************************************************************************)
(* C7: the calls a combinator makes on its inner decoders, and what        *)
(* reaches the caller when one of them fails.                              *)
(***************************************************************************)
\* The <<inner decoder, value>> pairs a combinator other than At and OneOf
\* hands over, in order.
Handed(d, v) ==
    CASE Tag(d) = "Array" ->
           IF IsSequence(v) THEN [i \in 1..Len(v[2]) |-> <<d[2], v[2][i]>>] ELSE <<>>
      [] Tag(d) = "Dictionary" ->
           IF IsMapping(v) THEN [i \in 1..Len(v[2]) |-> <<d[2], v[2][i][2]>>] ELSE <<>>
      [] Tag(d) = "Object" ->
           IF IsMapping(v)
           THEN [i \in 1..Len(d[2]) |-> <<d[2][i][2], Get(v, d[2][i][1])>>]
           ELSE <<>>
      [] Tag(d) = "Map" -> << <<d[3], v>> >>
      [] Tag(d) \in {"Maybe", "Default"} ->
           IF Missing(v) THEN <<>> ELSE << <<d[2], v>> >>

Wrapping == {"Array", "Dictionary", "Object", "Map", "Maybe", "Default"}

HandedOutcomes(d, v) ==
    [i \in 1..Len(Handed(d, v)) |-> Decode(Handed(d, v)[i][1], Handed(d, v)[i][2])]

\* The first failing inner call is an At decoder throwing its path error.
NestedAtFails(d, v) ==
    /\ ~AllReturn(HandedOutcomes(d, v))
    /\ LET call == Handed(d, v)[FirstThrow(HandedOutcomes(d, v))] IN
       /\ Tag(call[1]) = "At"
       /\ ~Traverse(call[1][2], call[2], 1, call[2])[1]

\* The inner At decoder that fails first, and the value handed to it.
FailingAt(d, v) == Handed(d, v)[FirstThrow(HandedOutcomes(d, v))]

PathError(at, actual) == DecodeError("value at " \o join(at[2], "."), actual)

====
